---- MODULE Spec2Model ----
(***************************************************************************)
(* A model of the util repository: ArrayToTree (ArrayToTree.js), the parts *)
(* of Type (Type.js) and ObjectPlus.clone (ObjectPlus.js) it rests on.     *)
(*                                                                         *)
(* JavaScript objects have identity.  The record objects live in `heap`,   *)
(* a sequence of cells addressed by their index; arrays of records         *)
(* (elements, tree, children, parents) hold such addresses.                *)
(***************************************************************************)
EXTENDS Integers, Sequences, FiniteSets, TLC

(***************************************************************************)
(* Bounds of the model.                                                    *)
(***************************************************************************)
MaxLen == 3
MaxShort == 2
MaxCalls == 2
MaxArray == 3
MaxIndex == 7

(***************************************************************************)
(* JavaScript values.  A number's field n counts halves, so that 3 is      *)
(* written Num(3) (n = 6) and 1.5 is Half(3) (n = 3).                      *)
(***************************************************************************)
Null == [t |-> "null", n |-> 0, s |-> "", a |-> <<>>]
Undef == [t |-> "undefined", n |-> 0, s |-> "", a |-> <<>>]
Num(x) == [t |-> "number", n |-> x + x, s |-> "", a |-> <<>>]
Half(x) == [t |-> "number", n |-> x, s |-> "", a |-> <<>>]
Str(x) == [t |-> "string", n |-> 0, s |-> x, a |-> <<>>]
Bool(b) == [t |-> "boolean", n |-> IF b THEN 2 ELSE 0, s |-> "", a |-> <<>>]
EmptyObj == [t |-> "object", n |-> 0, s |-> "", a |-> <<>>]
Arr(xs) == [t |-> "array", n |-> 0, s |-> "", a |-> xs]
SetOf(xs) == [t |-> "set", n |-> 0, s |-> "", a |-> xs]

(***************************************************************************)
(* Type.js                                                                 *)
(***************************************************************************)
isNumber(val) == val.t = "number"
isInteger(val) == isNumber(val) /\ val.n % 2 = 0
isWholeNumber(val) == isInteger(val) /\ val.n >= 0
isString(val) == val.t = "string"
isArray(val) == val.t = "array"
isSet(val) == val.t = "set"

(***************************************************************************)
(* The language's own conversions: ToBoolean, ToNumber of a string (the    *)
(* empty set stands for NaN), == and the SameValueZero of includes().      *)
(***************************************************************************)
Truthy(val) ==
    CASE val.t = "null" -> FALSE
      [] val.t = "undefined" -> FALSE
      [] val.t = "number" -> val.n # 0
      [] val.t = "boolean" -> val.n # 0
      [] val.t = "string" -> val.s # ""
      [] OTHER -> TRUE

StringToNumber(str) ==
    CASE str = "" -> {0}
      [] str = "0" -> {0}
      [] str = "1" -> {2}
      [] str = "2" -> {4}
      [] str = "3" -> {6}
      [] OTHER -> {}

ToNumber(val) ==
    CASE val.t = "number" -> {val.n}
      [] val.t = "boolean" -> {val.n}
      [] val.t = "string" -> StringToNumber(val.s)
      [] OTHER -> {}

IsPrimitive(val) == val.t \in {"null", "undefined", "number", "string", "boolean"}

SameValueZero(x, y) == IsPrimitive(x) /\ x.t = y.t /\ x = y

LooseEq(x, y) ==
    CASE ~IsPrimitive(x) \/ ~IsPrimitive(y) -> FALSE
      [] x.t = y.t -> x = y
      [] x.t \in {"null", "undefined"} -> y.t \in {"null", "undefined"}
      [] y.t \in {"null", "undefined"} -> FALSE
      [] OTHER -> ToNumber(x) \cap ToNumber(y) # {}

(***************************************************************************)
(* A record object: its id (Undef when the key is missing), whether it has *)
(* an own parent key, the parent value, and its children and parents       *)
(* fields.  Such a field is absent, an array of record addresses, or some  *)
(* other truthy value that is not an array (a caller's own field).         *)
(***************************************************************************)
Absent == [k |-> "absent", a |-> <<>>]
ArrayOf(xs) == [k |-> "array", a |-> xs]
Scalar == [k |-> "scalar", a |-> <<>>]

Rec(id, hasParent, parent) ==
    [id |-> id, hasParent |-> hasParent, parent |-> parent,
     children |-> Absent, parents |-> Absent]

VARIABLES
    container,  \* what the caller passes as elements: "array", "set", "other"
    records,    \* the caller's collection: the addresses of its record objects
    heap,       \* the record objects
    options,    \* this.options
    elements,   \* this.elements
    tree,       \* this.tree
    pc,         \* "new", then "built" or "failed" (the constructor threw)
    calls,      \* convert() calls made so far
    threw,      \* the last convert() call raised a TypeError
    found,      \* the argument and the result of the last findParentsFor()
    store,      \* the objects of a value handed to ObjectPlus.clone
    copy,       \* what ObjectPlus.clone returned for the value at store[1]
    argument,   \* the array handed to the ArrayPlus constructor
    list,       \* the ArrayPlus: its options and its slots
    got         \* the index and the result of the last fromIndex()

builder == <<container, records, heap, options, elements, tree, pc, calls, threw, found>>
cloning == <<store, copy>>
circularArray == <<argument, list, got>>
vars == <<builder, cloning, circularArray>>

NoQuery == [q |-> Undef, r |-> <<>>, asked |-> FALSE]

(***************************************************************************)
(* ObjectPlus.clone, on the values a record holds and on a record.         *)
(***************************************************************************)
cloneValue(val) == IF isSet(val) THEN Arr(val.a) ELSE val

cloneField(f) == f

cloneRecord(r) ==
    [id |-> cloneValue(r.id), hasParent |-> r.hasParent, parent |-> cloneValue(r.parent),
     children |-> cloneField(r.children), parents |-> cloneField(r.parents)]

(***************************************************************************)
(* ArrayToTree._isParentValid, _checkForValidity                           *)
(***************************************************************************)
isParentValid(val) ==
    \/ isString(val)
    \/ isWholeNumber(val)
    \/ isArray(val)
    \/ val = Null
    \/ val = Undef

checkForValidity(isArr, h, els) ==
    /\ isArr
    /\ \A i \in 1..Len(els) :
          /\ Truthy(h[els[i]].id)
          /\ h[els[i]].hasParent
          /\ isParentValid(h[els[i]].parent)

(***************************************************************************)
(* The constructor.  With alterOriginal the builder keeps the caller's     *)
(* array; otherwise it keeps a clone, whose records are new objects (the   *)
(* clone of a Set is an array of its members).                             *)
(***************************************************************************)
clonedAddresses(n) == [i \in 1..n |-> n + i]

\* A builder that keeps the caller's array whatever alterOriginal says.
constructorElementsAliased(alter, recs) == recs

constructorElements(alter, recs) ==
    IF alter THEN recs ELSE clonedAddresses(Len(recs))

constructorHeap(alter, h, recs) ==
    IF alter THEN h ELSE h \o [i \in 1..Len(recs) |-> cloneRecord(h[recs[i]])]

constructorIsArray(alter, c) ==
    IF alter THEN c = "array" ELSE c \in {"array", "set"}

Construct ==
    /\ pc = "new"
    /\ \E pr \in BOOLEAN, alter \in BOOLEAN :
          LET h == constructorHeap(alter, heap, records)
              els == constructorElements(alter, records)
              ok == checkForValidity(constructorIsArray(alter, container), h, els)
          IN /\ options' = [parentReferences |-> pr, alterOriginal |-> alter]
             /\ pc' = IF ok THEN "built" ELSE "failed"
             /\ heap' = IF ok THEN h ELSE heap
             /\ elements' = IF ok THEN els ELSE <<>>
             /\ tree' = <<>>
    /\ UNCHANGED <<container, records, calls, threw, found, cloning, circularArray>>

(***************************************************************************)
(* findParentsFor                                                          *)
(***************************************************************************)
Matches(parent, id) ==
    IF isArray(parent)
    THEN \E i \in 1..Len(parent.a) : SameValueZero(parent.a[i], id)
    ELSE LooseEq(parent, id)

\* The first match only, as Array.find would give.
findParentsForFirst(h, els, parent) ==
    LET all == SelectSeq(els, LAMBDA e : Matches(parent, h[e].id))
    IN IF Len(all) = 0 THEN all ELSE <<all[1]>>

\* The matches in the order of the ids in parent.
RECURSIVE matchesInParentOrder(_, _, _, _)
matchesInParentOrder(h, els, ids, i) ==
    IF i > Len(ids) THEN <<>>
    ELSE SelectSeq(els, LAMBDA e : SameValueZero(ids[i], h[e].id))
            \o matchesInParentOrder(h, els, ids, i + 1)

findParentsForInParentOrder(h, els, parent) ==
    IF isArray(parent) THEN matchesInParentOrder(h, els, parent.a, 1)
    ELSE SelectSeq(els, LAMBDA e : LooseEq(parent, h[e].id))

findParentsFor(h, els, parent) ==
    SelectSeq(els, LAMBDA e : Matches(parent, h[e].id))

(***************************************************************************)
(* _addChildTo and _addParentReferenceTo.  The result says whether the     *)
(* call raised: a truthy field that is no array has no filter method.      *)
(***************************************************************************)
\* A child pushed without looking for its id among the children.
addChildToUnchecked(h, parent, child) ==
    LET f == h[parent].children
    IN CASE f.k = "absent" ->
              [heap |-> [h EXCEPT ![parent].children = ArrayOf(<<child>>)], threw |-> FALSE]
         [] f.k = "scalar" -> [heap |-> h, threw |-> TRUE]
         [] OTHER ->
              [heap |-> [h EXCEPT ![parent].children = ArrayOf(Append(f.a, child))],
               threw |-> FALSE]

addChildTo(h, parent, child) ==
    LET f == h[parent].children
    IN CASE f.k = "absent" ->
              [heap |-> [h EXCEPT ![parent].children = ArrayOf(<<child>>)], threw |-> FALSE]
         [] f.k = "scalar" -> [heap |-> h, threw |-> TRUE]
         [] OTHER ->
              IF \E i \in 1..Len(f.a) : LooseEq(h[f.a[i]].id, h[child].id)
              THEN [heap |-> h, threw |-> FALSE]
              ELSE [heap |-> [h EXCEPT ![parent].children = ArrayOf(Append(f.a, child))],
                    threw |-> FALSE]

addParentReferenceTo(h, child, parent) ==
    LET f == h[child].parents
    IN CASE f.k = "absent" ->
              [heap |-> [h EXCEPT ![child].parents = ArrayOf(<<parent>>)], threw |-> FALSE]
         [] f.k = "scalar" -> [heap |-> h, threw |-> TRUE]
         [] OTHER ->
              IF \E i \in 1..Len(f.a) : LooseEq(h[f.a[i]].id, h[parent].id)
              THEN [heap |-> h, threw |-> FALSE]
              ELSE [heap |-> [h EXCEPT ![child].parents = ArrayOf(Append(f.a, parent))],
                    threw |-> FALSE]

(***************************************************************************)
(* _findAndLinkParentsFor: the loop over the parents found, from the i-th. *)
(***************************************************************************)
RECURSIVE linkParents(_, _, _, _, _)
linkParents(h, child, parents, i, parentReferences) ==
    IF i > Len(parents) THEN [heap |-> h, threw |-> FALSE]
    ELSE LET one == addChildTo(h, parents[i], child)
             two == IF one.threw \/ ~parentReferences THEN one
                    ELSE addParentReferenceTo(one.heap, child, parents[i])
         IN IF two.threw THEN two
            ELSE linkParents(two.heap, child, parents, i + 1, parentReferences)

findAndLinkParentsFor(st, els, child, parentReferences) ==
    LET parents == findParentsFor(st.heap, els, st.heap[child].parent)
        t == IF Len(parents) = 0 THEN Append(st.tree, child) ELSE st.tree
        linked == linkParents(st.heap, child, parents, 1, parentReferences)
    IN [heap |-> linked.heap, tree |-> t, threw |-> linked.threw]

(***************************************************************************)
(* convert: the roots go to the tree, then the others are linked in order. *)
(***************************************************************************)
\* Only null and undefined taken as "no parent", 0 taken as an id.
rootNodesNullOnly(h, els) == SelectSeq(els, LAMBDA e : h[e].parent \in {Null, Undef})

rootNodes(h, els) == SelectSeq(els, LAMBDA e : ~Truthy(h[e].parent))
nonRootNodes(h, els) == SelectSeq(els, LAMBDA e : Truthy(h[e].parent))

RECURSIVE linkAll(_, _, _, _, _)
linkAll(st, els, pending, i, parentReferences) ==
    IF i > Len(pending) \/ st.threw THEN st
    ELSE linkAll(findAndLinkParentsFor(st, els, pending[i], parentReferences),
                 els, pending, i + 1, parentReferences)

convert(h, els, t, parentReferences) ==
    linkAll([heap |-> h, tree |-> t \o rootNodes(h, els), threw |-> FALSE],
            els, nonRootNodes(h, els), 1, parentReferences)

Convert ==
    /\ pc = "built"
    /\ calls < MaxCalls
    /\ LET st == convert(heap, elements, tree, options.parentReferences)
       IN /\ heap' = st.heap
          /\ tree' = st.tree
          /\ threw' = st.threw
    /\ calls' = calls + 1
    /\ UNCHANGED <<container, records, options, elements, pc, found, cloning, circularArray>>

(***************************************************************************)
(* A call of findParentsFor with a record whose parent is q.               *)
(***************************************************************************)
Queries == {Str("1"), Num(1), Arr(<<Str("2"), Str("1")>>)}

FindParentsFor ==
    /\ pc = "built"
    /\ \E q \in Queries :
          found' = [q |-> q, r |-> findParentsFor(heap, elements, q), asked |-> TRUE]
    /\ UNCHANGED <<container, records, heap, options, elements, tree, pc, calls, threw>>
    /\ UNCHANGED <<cloning, circularArray>>

(***************************************************************************)
(* ObjectPlus.clone on a composite value.  The objects of the value live   *)
(* in `store`: a cell has a kind (object, array, set, function) and its    *)
(* items (an object's values, by key order), each a primitive or the       *)
(* address of a cell.  The value cloned is the cell store[1].              *)
(***************************************************************************)
Prim(x) == [ref |-> 0, prim |-> x]
Ref(a) == [ref |-> a, prim |-> ""]
Cell(kind, items) == [kind |-> kind, items |-> items]
NoCopy == [made |-> FALSE, value |-> Prim("undefined")]

\* Type.isEmpty of an object or array: it has no keys.
isEmpty(cell) == Len(cell.items) = 0

\* The result of a clone: the store with the cells it made, and the value.
RECURSIVE clone(_, _)
RECURSIVE cloneItems(_, _, _, _)

cloneItems(st, items, i, done) ==
    IF i > Len(items) THEN [store |-> st, items |-> done]
    ELSE LET one == clone(st, items[i])
         IN cloneItems(one.store, items, i + 1, Append(done, one.value))

clone(st, arg) ==
    IF arg.ref = 0 THEN [store |-> st, value |-> arg]
    ELSE LET cell == st[arg.ref]
             kids == cloneItems(st, cell.items, 1, <<>>)
             fresh == Ref(Len(kids.store) + 1)
         IN CASE cell.kind \in {"set", "array"} ->
                   [store |-> Append(kids.store, Cell("array", kids.items)), value |-> fresh]
              [] cell.kind = "function" ->
                   [store |-> Append(st, Cell("function", <<>>)), value |-> Ref(Len(st) + 1)]
              [] isEmpty(cell) -> [store |-> st, value |-> arg]
              [] OTHER ->
                   [store |-> Append(kids.store, Cell("object", kids.items)), value |-> fresh]

Clone ==
    /\ ~copy.made
    /\ Len(store) > 0
    /\ LET res == clone(store, Ref(1))
       IN /\ store' = res.store
          /\ copy' = [made |-> TRUE, value |-> res.value]
    /\ UNCHANGED <<builder, circularArray>>

NextClone == Clone

(***************************************************************************)
(* ArrayPlus.js: the constructor and fromIndex.  An item of an array is a  *)
(* string or a whole number; a slot of the ArrayPlus holds an item or      *)
(* nothing (undefined).  Array positions count from 0.                     *)
(***************************************************************************)
Text(x) == [k |-> "string", n |-> 0, s |-> x]
Number(x) == [k |-> "number", n |-> x, s |-> ""]
Undefined == [k |-> "undefined", n |-> 0, s |-> ""]

NoList == [made |-> FALSE, circular |-> TRUE, slots |-> <<>>]
NoAnswer == [asked |-> FALSE, index |-> 0, value |-> Undefined]

\* super(...arr): Array called with one number makes that many empty slots.
arraySuper(arr) ==
    IF Len(arr) = 1 /\ arr[1].k = "number"
    THEN [i \in 1..arr[1].n |-> Undefined]
    ELSE arr

NewArrayPlus ==
    /\ ~list.made
    /\ \E circular \in BOOLEAN :
          list' = [made |-> TRUE, circular |-> circular, slots |-> arraySuper(argument)]
    /\ UNCHANGED <<builder, cloning, argument, got>>

\* this[index]: undefined outside the array, and for NaN (x % 0).
at(slots, index) ==
    IF index.nan \/ index.n < 0 \/ index.n >= Len(slots) THEN Undefined
    ELSE slots[index.n + 1]

\* The index fromIndex reads, for a circular array.
circularIndex(length, index) ==
    IF index < 0 THEN [nan |-> FALSE, n |-> length + index]
    ELSE IF length = 0 THEN [nan |-> TRUE, n |-> 0]
    ELSE [nan |-> FALSE, n |-> index % length]

fromIndex(l, index) ==
    at(l.slots, IF l.circular THEN circularIndex(Len(l.slots), index)
                ELSE [nan |-> FALSE, n |-> index])

FromIndex ==
    /\ list.made
    /\ \E index \in (0 - MaxIndex)..MaxIndex :
          got' = [asked |-> TRUE, index |-> index, value |-> fromIndex(list, index)]
    /\ UNCHANGED <<builder, cloning, argument, list>>

NextArrayPlus == NewArrayPlus \/ FromIndex

Next == Construct \/ Convert \/ FindParentsFor

(***************************************************************************)
(* The collections the builder is given.                                   *)
(***************************************************************************)
LinkIds == {Str("1"), Str("2"), Str("3")}
LinkParents == {Num(0), Str("1"), Arr(<<Str("2"), Str("1")>>)}
LinkRecords ==
    {Rec(id, TRUE, p) : id \in LinkIds, p \in LinkParents} \cup {Rec(Num(1), TRUE, Null)}

InitWith(kinds, recs, max) ==
    /\ container \in kinds
    /\ heap \in UNION {[1..n -> recs] : n \in 0..max}
    /\ container = "other" => heap = <<>>
    /\ store = <<>>
    /\ copy = NoCopy
    /\ argument = <<>>
    /\ list = NoList
    /\ got = NoAnswer
    /\ records = [i \in 1..Len(heap) |-> i]
    /\ options = [parentReferences |-> TRUE, alterOriginal |-> FALSE]
    /\ elements = <<>>
    /\ tree = <<>>
    /\ pc = "new"
    /\ calls = 0
    /\ threw = FALSE
    /\ found = NoQuery

Init == InitWith({"array"}, LinkRecords, MaxLen)

Spec == Init /\ [][Next]_vars

\* Collections of every shape, well formed or not, in an array, in a Set, or
\* a value that is no collection.
AnyIds == {Str("1"), Undef, Num(0)}
AnyParents ==
    {Null, Undef, Str("1"), Num(1), Num(0 - 1), Half(3), Bool(TRUE), EmptyObj,
     Arr(<<Str("1")>>), Arr(<<Bool(TRUE)>>), SetOf(<<Str("1")>>)}
AnyRecords ==
    {Rec(id, TRUE, p) : id \in AnyIds, p \in AnyParents}
        \cup {Rec(id, FALSE, Undef) : id \in AnyIds}

InitValidate == InitWith({"array", "set", "other"}, AnyRecords, MaxShort)

SpecValidate == InitValidate /\ [][Next]_vars

\* Valid records that carry a children or a parents field of the caller's own.
FieldRecords ==
    {[Rec(id, TRUE, p) EXCEPT !.children = c, !.parents = ps] :
        id \in {Str("1"), Str("2")}, p \in {Null, Str("1")},
        c \in {Absent, Scalar, ArrayOf(<<>>)}, ps \in {Absent, Scalar}}

InitFields == InitWith({"array"}, FieldRecords, MaxShort)

SpecFields == InitFields /\ [][Next]_vars

\* Values of up to MaxCells objects, each holding up to MaxItems items: a
\* number, or a cell of a higher address.
MaxCells == 3
MaxItems == 2

CellKinds == {"object", "array", "set", "function"}

ItemsOver(vals) == UNION {[1..n -> vals] : n \in 0..MaxItems}

CellsAt(i, n) ==
    {Cell(k, items) : k \in CellKinds \ {"function"},
                      items \in ItemsOver({Prim("number")} \cup {Ref(j) : j \in (i + 1)..n})}
        \cup {Cell("function", <<>>)}

InitClone ==
    /\ store \in UNION {{st \in [1..n -> CellsAt(1, n)] :
                             \A i \in 1..n : st[i] \in CellsAt(i, n)} : n \in 1..MaxCells}
    /\ copy = NoCopy
    /\ container = "other"
    /\ heap = <<>>
    /\ records = <<>>
    /\ options = [parentReferences |-> TRUE, alterOriginal |-> FALSE]
    /\ elements = <<>>
    /\ tree = <<>>
    /\ pc = "new"
    /\ calls = 0
    /\ threw = FALSE
    /\ found = NoQuery
    /\ argument = <<>>
    /\ list = NoList
    /\ got = NoAnswer

SpecClone == InitClone /\ [][NextClone]_vars

\* Arrays of up to MaxArray items, asked for indexes of up to MaxIndex either
\* way.  The items differ by position, so that a result tells its slot.
ItemAt(i) == CASE i = 1 -> "a" [] i = 2 -> "b" [] i = 3 -> "c" [] OTHER -> "d"

InitArrayPlus ==
    /\ argument \in {[i \in 1..n |-> Text(ItemAt(i))] : n \in 0..MaxArray}
                     \cup {<<Number(n)>> : n \in 0..MaxArray}
    /\ list = NoList
    /\ got = NoAnswer
    /\ store = <<>>
    /\ copy = NoCopy
    /\ container = "other"
    /\ heap = <<>>
    /\ records = <<>>
    /\ options = [parentReferences |-> TRUE, alterOriginal |-> FALSE]
    /\ elements = <<>>
    /\ tree = <<>>
    /\ pc = "new"
    /\ calls = 0
    /\ threw = FALSE
    /\ found = NoQuery

SpecArrayPlus == InitArrayPlus /\ [][NextArrayPlus]_vars

(***************************************************************************)
(* What the claims speak of.                                               *)
(***************************************************************************)
Returned == pc = "built" /\ calls >= 1 /\ ~threw

Elements == {elements[i] : i \in 1..Len(elements)}

Children(e) == heap[e].children.a
Parents(e) == heap[e].parents.a
InSeq(x, xs) == \E i \in 1..Len(xs) : xs[i] = x

\* The parents convert() links a record to: none for a record it takes as a root.
Resolved(e) ==
    IF Truthy(heap[e].parent)
    THEN {p \in Elements : Matches(heap[e].parent, heap[p].id)}
    ELSE {}

\* The nodes reachable from the set S by following children links.
RECURSIVE Reachable(_)
Reachable(S) ==
    LET more == S \cup UNION {{Children(p)[i] : i \in 1..Len(Children(p))} : p \in S}
    IN IF more = S THEN S ELSE Reachable(more)

Forest == {tree[i] : i \in 1..Len(tree)}

\* How often the id appears in the forest array and in the children
\* sequences of the nodes reachable from the forest.
Appearances(id) ==
    Cardinality({i \in 1..Len(tree) : heap[tree[i]].id = id})
    + Cardinality({pi \in UNION {{<<p, i>> : i \in 1..Len(Children(p))} : p \in Reachable(Forest)} :
                      heap[Children(pi[1])[pi[2]]].id = id})

\* How often the id appears in the children sequence of p.
AppearancesIn(p, id) ==
    Cardinality({i \in 1..Len(Children(p)) : heap[Children(p)[i]].id = id})

\* No two records of the collection have ids that == takes as equal.
DistinctIds ==
    \A i, j \in 1..Len(elements) :
        i # j => ~LooseEq(heap[elements[i]].id, heap[elements[j]].id)

\* The records that are ancestors of those in S by the resolved parent links.
RECURSIVE Ancestors(_)
Ancestors(S) ==
    LET more == S \cup UNION {Resolved(e) : e \in S}
    IN IF more = S THEN S ELSE Ancestors(more)

Acyclic == \A e \in Elements : \A p \in Resolved(e) : e \notin Ancestors({p})

(***************************************************************************)
(* C1 as stated: after convert() every record's id appears exactly once    *)
(* across the forest array and the children sequences reachable from it.   *)
(* It is stated here for the first convert() of a collection with pairwise *)
(* distinct ids and no cycle only, the inputs most favourable to it.       *)
(***************************************************************************)
C1_ExactlyOnce ==
    (Returned /\ calls = 1 /\ DistinctIds /\ Acyclic) =>
        \A e \in Elements : Appearances(heap[e].id) = 1

(***************************************************************************)
(* C1 as amended: when the ids are pairwise distinct and the parent links  *)
(* form no cycle, after convert() every record's id appears exactly once   *)
(* in the children of each parent it resolves to and in no other children  *)
(* sequence, the record is in the forest array exactly when it resolves to *)
(* no parent, and every record is reachable from the forest.               *)
(***************************************************************************)
C1_OncePerParent ==
    (Returned /\ DistinctIds /\ Acyclic) =>
        \A e \in Elements :
            /\ \A p \in Elements :
                  AppearancesIn(p, heap[e].id) = IF p \in Resolved(e) THEN 1 ELSE 0
            /\ (e \in Forest) <=> (Resolved(e) = {})
            /\ e \in Reachable(Forest)

\* A record with two resolved parents has been linked, twice over.
C1_Witness ==
    /\ Returned /\ DistinctIds /\ Acyclic
    /\ calls = 2
    /\ \E e \in Elements : Cardinality(Resolved(e)) = 2 /\ Appearances(heap[e].id) = 2

(***************************************************************************)
(* C2 as stated: a second convert() on the same builder returns a forest   *)
(* with the same nodes in the same order as the first, and no children or  *)
(* parents sequence has gained an entry between the two calls.             *)
(***************************************************************************)
C2_Idempotent ==
    [][(Returned /\ calls' = calls + 1 /\ ~threw') =>
          /\ tree' = tree
          /\ \A e \in Elements :
                /\ heap'[e].children = heap[e].children
                /\ heap'[e].parents = heap[e].parents]_vars

(***************************************************************************)
(* C3: with alterOriginal false the caller's array and every record object *)
(* in it are left as they are by the constructor and by every convert().   *)
(***************************************************************************)
C3_OriginalUntouched ==
    [][(options'.alterOriginal = FALSE) =>
          /\ records' = records
          /\ \A i \in 1..Len(records) : heap'[records[i]] = heap[records[i]]]_vars

\* convert() has linked the builder's records, and the caller's have no links.
C3_Witness ==
    /\ Returned
    /\ options.alterOriginal = FALSE
    /\ \E e \in Elements : Len(Children(e)) > 0
    /\ \E e \in Elements : Len(Parents(e)) > 0
    /\ \A i \in 1..Len(records) :
          heap[records[i]].children = Absent /\ heap[records[i]].parents = Absent

\* A record whose parent is a sequence of ids of which at least two resolve.
MultiParent(e) == isArray(heap[e].parent) /\ Cardinality(Resolved(e)) >= 2

LinkedToAll(e) ==
    \A p \in Resolved(e) :
        /\ InSeq(e, Children(p))
        /\ options.parentReferences => InSeq(p, Parents(e))

(***************************************************************************)
(* C4 as stated: after convert() a record whose parent is a sequence of    *)
(* ids of which at least two resolve is, as the same object, in the        *)
(* children of each resolved parent, and with parentReferences each        *)
(* resolved parent is in its parents.                                      *)
(***************************************************************************)
C4_SharedNode ==
    Returned => \A e \in Elements : MultiParent(e) => LinkedToAll(e)

(***************************************************************************)
(* C4 as amended: the same, for a collection whose ids are pairwise        *)
(* distinct under ==.                                                      *)
(***************************************************************************)
C4_SharedNodeDistinctIds ==
    (Returned /\ DistinctIds) => \A e \in Elements : MultiParent(e) => LinkedToAll(e)

\* A record with two resolved parents sits in the children of both.
C4_Witness ==
    /\ Returned /\ DistinctIds
    /\ options.parentReferences
    /\ \E e \in Elements :
          /\ MultiParent(e)
          /\ e \notin Resolved(e)
          /\ \A p \in Resolved(e) : InSeq(e, Children(p)) /\ InSeq(p, Parents(e))

\* The records convert() takes as roots, and those none of whose declared
\* parent ids is the id of a record.
DeclaredRoot(e) == ~Truthy(heap[e].parent)
Orphan(e) ==
    /\ Truthy(heap[e].parent)
    /\ \A p \in Elements : ~Matches(heap[e].parent, heap[p].id)

(***************************************************************************)
(* C5: the forest the first convert() returns is the records with a falsy  *)
(* parent, in input order, followed by the orphans, in input order.        *)
(***************************************************************************)
C5_ForestOrder ==
    (Returned /\ calls = 1) =>
        tree = SelectSeq(elements, DeclaredRoot) \o SelectSeq(elements, Orphan)

\* An orphan that comes before a declared root in the input, and a linked record.
C5_Witness ==
    /\ Returned /\ calls = 1
    /\ \E i, j \in 1..Len(elements) :
          i < j /\ Orphan(elements[i]) /\ DeclaredRoot(elements[j])
    /\ \E e \in Elements : Resolved(e) # {}

\* The builder was given the example of the constructor's documentation, with
\* the default options, and convert() has been called once.
ExampleConverted ==
    /\ Returned /\ calls = 1
    /\ options = [parentReferences |-> TRUE, alterOriginal |-> FALSE]
    /\ Len(records) = 3
    /\ heap[records[1]].id = Str("1") /\ heap[records[1]].parent = Num(0)
    /\ heap[records[2]].id = Str("2") /\ heap[records[2]].parent = Str("1")
    /\ heap[records[3]].id = Str("3")
    /\ heap[records[3]].parent = Arr(<<Str("2"), Str("1")>>)

(***************************************************************************)
(* C7 as stated: for the example the forest is the single root 1 whose     *)
(* children are [Node2]; Node2 has parents [Node1] and children [Node3];   *)
(* Node3 has parents [Node2, Node1], in that order.                        *)
(***************************************************************************)
C7_Example ==
    ExampleConverted =>
        /\ tree = <<elements[1]>>
        /\ Children(elements[1]) = <<elements[2]>>
        /\ Parents(elements[2]) = <<elements[1]>>
        /\ Children(elements[2]) = <<elements[3]>>
        /\ Parents(elements[3]) = <<elements[2], elements[1]>>

(***************************************************************************)
(* C7 as amended: for the example the forest is the single root 1 whose    *)
(* children are [Node2, Node3]; Node2 has parents [Node1] and children     *)
(* [Node3]; Node3 has parents [Node1, Node2], in that order.               *)
(***************************************************************************)
C7_ExampleInCollectionOrder ==
    ExampleConverted =>
        /\ tree = <<elements[1]>>
        /\ Children(elements[1]) = <<elements[2], elements[3]>>
        /\ heap[elements[1]].parents = Absent
        /\ Parents(elements[2]) = <<elements[1]>>
        /\ Children(elements[2]) = <<elements[3]>>
        /\ Parents(elements[3]) = <<elements[1], elements[2]>>
        /\ heap[elements[3]].children = Absent

C7_Witness == ExampleConverted /\ Len(Parents(elements[3])) = 2

\* The id is referenced by the parent value q.
References(q, id) ==
    IF isArray(q) THEN \E i \in 1..Len(q.a) : q.a[i] = id ELSE LooseEq(q, id)

Position(e) == CHOOSE i \in 1..Len(elements) : elements[i] = e

(***************************************************************************)
(* C8: findParentsFor returns exactly the records of the collection whose  *)
(* id the parent value references, in the order of the collection, whether *)
(* or not convert() has been called.                                       *)
(***************************************************************************)
C8_FindParents ==
    found.asked =>
        /\ \A e \in Elements : InSeq(e, found.r) <=> References(found.q, heap[e].id)
        /\ \A i \in 1..Len(found.r) : found.r[i] \in Elements
        /\ \A i, j \in 1..Len(found.r) :
              i < j => Position(found.r[i]) < Position(found.r[j])

\* Two parents found for ["2", "1"]: the record "1" first, as in the collection.
C8_Witness ==
    /\ found.asked /\ calls >= 1
    /\ found.q = Arr(<<Str("2"), Str("1")>>)
    /\ Len(found.r) = 2
    /\ heap[found.r[1]].id = Str("1") /\ heap[found.r[2]].id = Str("2")

\* What the claim lets a parent be, and a collection the claim says is refused.
IsId(val) == isString(val) \/ isWholeNumber(val)

ParentAllowed(val) ==
    \/ val \in {Null, Undef}
    \/ isString(val)
    \/ isWholeNumber(val)
    \/ (isArray(val) \/ isSet(val)) /\ \A i \in 1..Len(val.a) : IsId(val.a[i])

Malformed ==
    \/ container = "other"
    \/ \E i \in 1..Len(records) :
          \/ ~Truthy(heap[records[i]].id)
          \/ ~heap[records[i]].hasParent
          \/ ~ParentAllowed(heap[records[i]].parent)

(***************************************************************************)
(* C6 as stated: the constructor fails, and gives no builder, when records *)
(* is no sequence or an element lacks a truthy id, lacks the parent key or *)
(* has a parent that is not null, undefined, a string, a whole number or a *)
(* sequence of ids.                                                        *)
(***************************************************************************)
C6_Rejected ==
    (pc # "new" /\ Malformed) => pc = "failed"

(***************************************************************************)
(* C9 as stated: once the constructor has succeeded, convert() completes   *)
(* and returns the forest, also for records that carry a children or       *)
(* parents field of their own, of any value.                               *)
(***************************************************************************)
C9_ConvertNeverThrows ==
    pc = "built" => ~threw

\* The cells reachable from the cells of S.
RECURSIVE CellsFrom(_)
CellsFrom(S) ==
    LET more == S \cup UNION {{store[a].items[i].ref : i \in 1..Len(store[a].items)} \ {0} : a \in S}
    IN IF more = S THEN S ELSE CellsFrom(more)

CellsOf(val) == IF val.ref = 0 THEN {} ELSE CellsFrom({val.ref})

\* Structural equality: a mapping equals a mapping, a sequence a sequence,
\* item by item.
Sort(kind) == IF kind \in {"array", "set"} THEN "sequence" ELSE kind

RECURSIVE SameStructure(_, _)
SameStructure(x, y) ==
    IF x.ref = 0 \/ y.ref = 0 THEN x = y
    ELSE /\ Sort(store[x.ref].kind) = Sort(store[y.ref].kind)
         /\ Len(store[x.ref].items) = Len(store[y.ref].items)
         /\ \A i \in 1..Len(store[x.ref].items) :
               SameStructure(store[x.ref].items[i], store[y.ref].items[i])

(***************************************************************************)
(* C10 as stated: the clone of a composite value is structurally equal to  *)
(* it and no object or array reachable from the clone, empty ones          *)
(* included, is an object or array reachable from the original.            *)
(***************************************************************************)
C10_NothingShared ==
    copy.made =>
        /\ SameStructure(Ref(1), copy.value)
        /\ CellsOf(copy.value) \cap CellsOf(Ref(1)) = {}

(***************************************************************************)
(* C11 as stated: for a circular ArrayPlus of length n >= 1, fromIndex(i)  *)
(* is the element at position i modulo n for every integer i, positive or  *)
(* negative, never undefined because i is out of range.                    *)
(***************************************************************************)
C11_AnyIndex ==
    (got.asked /\ list.circular /\ Len(list.slots) >= 1) =>
        got.value = list.slots[(got.index % Len(list.slots)) + 1]
\* What findParentsFor returns for a record whose parent is the one-element
\* sequence [x].
AsSequence(x) == findParentsFor(heap, elements, Arr(<<x>>))

(***************************************************************************)
(* C12 as stated: for a truthy id x, a string or a whole number,           *)
(* findParentsFor returns the same records for the parent x and for the    *)
(* parent [x], and two ids of the collection are equal for the dedup of    *)
(* children and parents exactly when parent resolution takes them as       *)
(* equal, written either way.                                              *)
(***************************************************************************)
C12_ScalarOrSequence ==
    (found.asked /\ IsId(found.q) /\ Truthy(found.q)) =>
        /\ found.r = AsSequence(found.q)
        /\ \A e, p \in Elements :
              LooseEq(heap[e].id, heap[p].id)
                  <=> (Matches(heap[e].id, heap[p].id)
                          /\ Matches(Arr(<<heap[e].id>>), heap[p].id))
====
